---- MODULE Spec2Model ----
(***************************************************************************)
(* A model of the mining pool of ironfish/src/miningNew: the share ledger  *)
(* (poolShares.ts and its persistent variant), the pool orchestrator       *)
(* MiningPool and the worker session StratumClient (stratumClient.ts).     *)
(*                                                                         *)
(* Three specifications share the module:                                  *)
(*   SpecShares  the ledger driven directly through its public methods,    *)
(*   Spec        the pool orchestrator (which owns a ledger),              *)
(*   SpecClient  the worker session.                                       *)
(***************************************************************************)
EXTENDS Integers, Sequences, FiniteSets, TLC

VARIABLES
    \* ---- MiningPoolShares
    shares,                     \* Share[]: the in-memory ledger
    dbRows,                     \* rows the persistent variant has inserted
    now,                        \* the wall clock read by new Date()
    \* ---- MiningPool
    started,                    \* MiningPool.started
    stopPromise,                \* "null" | "pending" | "resolved"
    connectWarned,              \* MiningPool.connectWarned
    connectTimeoutLive,         \* the timer connectTimeout refers to is pending
    pendingTimers,              \* all pending startConnectingRpc timers
    nextMiningRequestId,
    miningRequestBlocks,        \* id + 1 -> reference into heap
    heap,                       \* the SerializedBlockTemplate objects, by reference
    currentHeadTimestamp,       \* <<a number>>, or NullValue
    currentHeadDifficulty,      \* a difficulty, or NullValue
    recalculateTargetInterval,  \* "null" | "armed" | "cleared"
    \* ---- the node link (IronfishIpcClient) and the listener (StratumServer)
    rpcConnected,               \* the node connection is open
    tryConnecting,              \* rpc.tryConnect() calls in flight
    consumers,                  \* processNewBlocks loops running
    streamBuffered,             \* templates the node has pushed, not yet consumed
    submitBlockCalls,           \* calls of rpc.submitBlock
    stratumListening,           \* stratum.start() .. stratum.stop()
    newWorkLog,                 \* the stratum.newWork broadcasts, in order
    workersWaiting,             \* last broadcast was stratum.waitForWork
    poolWarnings,               \* 'Failed to connect to node' warnings of the streak
    poolFailures,               \* failed attempts the loop handled in the streak
    assertFailed,               \* an Assert.* of the pool threw
    \* ---- StratumClient
    cStarted,                   \* StratumClient.started
    cConnected,                 \* StratumClient.connected
    cConnectWarned,             \* StratumClient.connectWarned
    cConnecting,                \* connectSocket() promises in flight
    cTimers,                    \* pending startConnecting timers
    cSocket,                    \* "closed" | "open" | "ending"
    cGraffiti,                  \* StratumClient.graffiti
    requestsSent,               \* Map<number, string>, as a set of <<id, method>>
    nextMessageId,
    socketWrites,               \* lines written to the socket, in order
    socketConnects,             \* calls of socket.connect
    cStopCalled,                \* stop() has been called
    cWarnings,                  \* 'Failed to connect to pool' warnings of the streak
    cFailures,                  \* failed attempts the loop handled in the streak
    minerCalls,                 \* calls the last handler made on the MiningPoolMiner
    \* ---- observation
    lastCall                    \* the handler that ran last, with its arguments

shareVars == <<shares, dbRows, now>>
poolVars == <<started, stopPromise, connectWarned, connectTimeoutLive, pendingTimers,
              nextMiningRequestId, miningRequestBlocks, heap, currentHeadTimestamp,
              currentHeadDifficulty, recalculateTargetInterval, rpcConnected,
              tryConnecting, consumers, streamBuffered, submitBlockCalls,
              stratumListening, newWorkLog, workersWaiting, poolWarnings,
              poolFailures, assertFailed>>
clientVars == <<cStarted, cConnected, cConnectWarned, cConnecting, cTimers, cSocket,
                cGraffiti, requestsSent, nextMessageId, socketWrites, socketConnects,
                cStopCalled, cWarnings, cFailures, minerCalls>>
vars == <<shareVars, poolVars, clientVars, lastCall>>

Null == "null"

\* A nullable value is <<>> (null) or <<v>>; a missing map entry is NoRef.
NullValue == <<>>
NoRef == 0

(***************************************************************************)
(* Bounds of the model.                                                    *)
(***************************************************************************)
MaxLedger == 3       \* shares appended to the ledger called directly
MaxShares == 1       \* shares the pool records
MaxTime == 1         \* clock ticks
MaxJobs == 2         \* mining request IDs handed out
MaxAttempts == 2     \* connect attempts in flight, and pending retry timers
MaxStreak == 2       \* failed attempts counted in one streak
MaxMessages == 3     \* request IDs the worker session hands out
MaxBuffered == 1     \* templates in flight on the node's stream
MaxBlocks == 1       \* calls of rpc.submitBlock
MaxConsumers == 2    \* processNewBlocks loops running at once
BufferBytes == 6     \* leading bytes kept of a 32-byte hash or target
MaxConnects == 3     \* calls of socket.connect
MaxLines == 2        \* lines in one chunk of inbound data
MaxWindowShares == 6 \* shares in the ledger the hash rate is computed over

\* The constants of the pool.
RECALCULATE_TARGET_TIMEOUT == 10000
HASHRATE_TIME_CUTOFF_SECONDS == 60
HASHRATE_TIME_CUTOFF_MILLISECONDS == HASHRATE_TIME_CUTOFF_SECONDS * 1000

(***************************************************************************)
(* Buffers are sequences of bytes; a hex string is a sequence of nibbles.  *)
(***************************************************************************)
\* Buffer.prototype.toString('hex')
ToHex(buf) ==
    [i \in 1..(2 * Len(buf)) |->
        IF i % 2 = 1 THEN buf[(i + 1) \div 2] \div 16 ELSE buf[i \div 2] % 16]

\* Buffer.from(str, 'hex')
FromHex(hex) ==
    [i \in 1..(Len(hex) \div 2) |-> hex[2 * i - 1] * 16 + hex[2 * i]]

(***************************************************************************)
(* hashedHeader < this.target compares two Buffer objects with JavaScript's *)
(* relational operator.  Neither operand is a primitive, so each is        *)
(* converted with ToPrimitive: Object.prototype.valueOf returns the object *)
(* itself, and Buffer.prototype.toString() then decodes the bytes as UTF-8 *)
(* (an ill-formed sequence becoming U+FFFD per maximal subpart); the two   *)
(* strings are compared by UTF-16 code unit.  Utf8Decode and StringLess    *)
(* are that conversion and that comparison; NumericLess is the comparison  *)
(* of the two buffers as big-endian unsigned integers.                     *)
(***************************************************************************)
Replacement == 65533

IsCont(buf, i, lo, hi) == i <= Len(buf) /\ buf[i] >= lo /\ buf[i] <= hi

\* The bounds of the first continuation byte after lead byte b.
FirstLo(b) == IF b = 224 THEN 160 ELSE IF b = 240 THEN 144 ELSE 128
FirstHi(b) == IF b = 237 THEN 159 ELSE IF b = 244 THEN 143 ELSE 191

\* The UTF-16 code units of a code point.
CodeUnits(cp) ==
    IF cp < 65536 THEN <<cp>>
    ELSE <<55296 + ((cp - 65536) \div 1024), 56320 + ((cp - 65536) % 1024)>>

RECURSIVE Utf8From(_, _)
Utf8From(buf, i) ==
    IF i > Len(buf) THEN <<>>
    ELSE LET b == buf[i] IN
        IF b < 128 THEN <<b>> \o Utf8From(buf, i + 1)
        ELSE IF b >= 194 /\ b <= 223 THEN
            IF IsCont(buf, i + 1, 128, 191)
            THEN <<(b - 192) * 64 + (buf[i + 1] - 128)>> \o Utf8From(buf, i + 2)
            ELSE <<Replacement>> \o Utf8From(buf, i + 1)
        ELSE IF b >= 224 /\ b <= 239 THEN
            IF ~IsCont(buf, i + 1, FirstLo(b), FirstHi(b))
            THEN <<Replacement>> \o Utf8From(buf, i + 1)
            ELSE IF ~IsCont(buf, i + 2, 128, 191)
            THEN <<Replacement>> \o Utf8From(buf, i + 2)
            ELSE <<(b - 224) * 4096 + (buf[i + 1] - 128) * 64 + (buf[i + 2] - 128)>>
                 \o Utf8From(buf, i + 3)
        ELSE IF b >= 240 /\ b <= 244 THEN
            IF ~IsCont(buf, i + 1, FirstLo(b), FirstHi(b))
            THEN <<Replacement>> \o Utf8From(buf, i + 1)
            ELSE IF ~IsCont(buf, i + 2, 128, 191)
            THEN <<Replacement>> \o Utf8From(buf, i + 2)
            ELSE IF ~IsCont(buf, i + 3, 128, 191)
            THEN <<Replacement>> \o Utf8From(buf, i + 3)
            ELSE CodeUnits((b - 240) * 262144 + (buf[i + 1] - 128) * 4096
                           + (buf[i + 2] - 128) * 64 + (buf[i + 3] - 128))
                 \o Utf8From(buf, i + 4)
        ELSE <<Replacement>> \o Utf8From(buf, i + 1)

\* Buffer.prototype.toString(): the UTF-16 code units of the decoded bytes.
Utf8Decode(buf) == Utf8From(buf, 1)

\* Lexicographic order of two sequences of numbers; a proper prefix is less.
RECURSIVE SeqLess(_, _, _)
SeqLess(a, b, i) ==
    IF i > Len(b) THEN FALSE
    ELSE IF i > Len(a) THEN TRUE
    ELSE IF a[i] # b[i] THEN a[i] < b[i]
    ELSE SeqLess(a, b, i + 1)

\* string < string
StringLess(a, b) == SeqLess(a, b, 1)

\* The comparison of the bytes as big-endian unsigned integers of one width.
NumericLess(a, b) == SeqLess(a, b, 1)

\* A mutant of BufferLess: the order reversed.
BufferLessReversed(a, b) == StringLess(Utf8Decode(b), Utf8Decode(a))

\* Buffer < Buffer, as JavaScript evaluates it.
BufferLess(a, b) == StringLess(Utf8Decode(a), Utf8Decode(b))

(***************************************************************************)
(* The pool difficulty and the pool target.                                *)
(***************************************************************************)
\* BigInt(1_850_000) * 2n
difficulty == 1850000 * 2

\* BigIntUtils.toBytesBE(2n ** 256n / difficulty, 32), by long division in
\* base 256: 2^256 is the digit 1 followed by 32 zero digits, and the
\* quotient's leading digit (1 \div difficulty) is 0.  The model keeps the
\* leading BufferBytes bytes of every 32-byte buffer: the digits of the
\* division are the same at every width.
RECURSIVE QuotientDigits(_, _, _)
QuotientDigits(rem, d, n) ==
    IF n = 0 THEN <<>>
    ELSE <<(rem * 256) \div d>> \o QuotientDigits((rem * 256) % d, d, n - 1)

target == QuotientDigits(1, difficulty, BufferBytes)

(***************************************************************************)
(* Inputs.                                                                 *)
(***************************************************************************)
\* Graffiti buffers of the miners, and the one of the node's templates.
Graffitis == {<<161>>, <<178>>}
NodeGraffiti == ToHex(<<0>>)
Randomness == {1, 2}

\* The miner that submits to the pool at work.
WorkGraffitis == {<<161>>}
WorkRandomness == {1}

\* A buffer that differs from the pool target in bytes 3, 4 and 5.
Near(b3, b4, b5) == [target EXCEPT ![3] = b3, ![4] = b4, ![5] = b5]

\* The hashes blake3 may return for a header.
Hashes == {Near(0, 0, 0), Near(4, 128, 0), Near(4, 128, 255), Near(4, 137, 0),
           Near(5, 0, 0)}

\* The network targets the node and the difficulty curve may produce: one
\* harder than the pool target and one easier.
NetTargets == {Near(4, 0, 0), Near(6, 0, 0)}

(***************************************************************************)
(* MiningPoolShares                                                        *)
(***************************************************************************)
Share(graffiti, miningRequestId, randomness) ==
    [timestamp |-> now, graffiti |-> graffiti,
     miningRequestId |-> miningRequestId, randomness |-> randomness]

\* A mutant of Pushed: a share that is already there is not appended.
PushedUnlessPresent(graffiti, miningRequestId, randomness) ==
    IF \E i \in 1..Len(shares) :
          /\ shares[i].graffiti = graffiti
          /\ shares[i].miningRequestId = miningRequestId
          /\ shares[i].randomness = randomness
    THEN shares
    ELSE Append(shares, Share(graffiti, miningRequestId, randomness))

\* this.shares.push({timestamp: new Date(), graffiti, miningRequestId, randomness})
Pushed(graffiti, miningRequestId, randomness) ==
    Append(shares, Share(graffiti, miningRequestId, randomness))

hasShare(graffiti, miningRequestId, randomness) ==
    \E i \in 1..Len(shares) :
        /\ shares[i].miningRequestId = miningRequestId
        /\ shares[i].randomness = randomness
        /\ shares[i].graffiti = graffiti

ShareCount(s) == Len(s)
GraffitiCount(s, graffiti) ==
    Cardinality({i \in 1..Len(s) : s[i].graffiti = graffiti})

totalShareCount == ShareCount(shares)
graffitiShareCount(graffiti) == GraffitiCount(shares, graffiti)
\* A mutant of totalShareCountSince: a share stamped at the cutoff counts.
totalShareCountSinceInclusive(timeCutoff) ==
    Cardinality({i \in 1..Len(shares) : shares[i].timestamp >= timeCutoff})

totalShareCountSince(timeCutoff) ==
    Cardinality({i \in 1..Len(shares) : shares[i].timestamp > timeCutoff})
graffitiShareCountSince(graffiti, timeCutoff) ==
    Cardinality({i \in 1..Len(shares) :
                    shares[i].timestamp > timeCutoff /\ shares[i].graffiti = graffiti})

\* MiningPoolShares.submitShare, called directly.
SubmitShare(graffiti, miningRequestId, randomness) ==
    /\ Len(shares) < MaxLedger
    /\ shares' = Pushed(graffiti, miningRequestId, randomness)
    /\ lastCall' = [op |-> "submitShare", graffiti |-> graffiti,
                    miningRequestId |-> miningRequestId, randomness |-> randomness]
    /\ UNCHANGED <<dbRows, now>>

\* The persistent variant: the push, then await this.db.newShare(graffiti),
\* which inserts a row or rejects.
SubmitSharePersistent(graffiti, miningRequestId, randomness, inserted) ==
    /\ Len(shares) < MaxLedger
    /\ shares' = Pushed(graffiti, miningRequestId, randomness)
    /\ dbRows' = IF inserted THEN dbRows + 1 ELSE dbRows
    /\ lastCall' = [op |-> "submitSharePersistent", graffiti |-> graffiti,
                    miningRequestId |-> miningRequestId, randomness |-> randomness]
    /\ UNCHANGED now

\* Time passes.
Tick ==
    /\ now < MaxTime
    /\ now' = now + 1
    /\ lastCall' = [op |-> "tick"]
    /\ UNCHANGED <<shares, dbRows>>

(***************************************************************************)
(* MiningPool                                                              *)
(***************************************************************************)
\* The IDs a miner may submit against: -1 is nextMiningRequestId - 1 before
\* the first template.
SubmitIds == -1..(MaxJobs - 1)

\* Target.toDifficulty(), an external primitive: the difficulty of a target.
ToDifficulty(buf) == <<"difficulty", buf>>

\* this.miningRequestBlocks.get(id): a reference into heap, or NoRef.
BlockRefIn(map, id) == IF id + 1 \in DOMAIN map THEN map[id + 1] ELSE NoRef
\* A mutant of BlockRef: every lookup yields the first job.
BlockRefOfFirst(id) == BlockRefIn(miningRequestBlocks, 0)

BlockRef(id) == BlockRefIn(miningRequestBlocks, id)

\* A mutant of IsLatest: any ID that was handed out passes.
IsKnown(miningRequestId) ==
    miningRequestId >= 0 /\ miningRequestId < nextMiningRequestId

\* miningRequestId === this.nextMiningRequestId - 1
IsLatest(miningRequestId) == miningRequestId = nextMiningRequestId - 1

\* stop(), past its started check.
\* A mutant of StopEffects: the retarget interval is left running.
StopKeepsInterval ==
    /\ started' = FALSE
    /\ rpcConnected' = FALSE
    /\ stratumListening' = FALSE
    /\ recalculateTargetInterval' = recalculateTargetInterval
    /\ stopPromise' = "resolved"
    /\ connectTimeoutLive' = FALSE
    /\ pendingTimers' = IF connectTimeoutLive THEN pendingTimers - 1 ELSE pendingTimers

StopEffects ==
    /\ started' = FALSE
    /\ rpcConnected' = FALSE
    /\ stratumListening' = FALSE
    /\ recalculateTargetInterval' =
          IF recalculateTargetInterval = "armed" THEN "cleared"
          ELSE recalculateTargetInterval
    /\ stopPromise' = "resolved"
    /\ connectTimeoutLive' = FALSE
    /\ pendingTimers' = IF connectTimeoutLive THEN pendingTimers - 1 ELSE pendingTimers

StopVarsUnchanged ==
    UNCHANGED <<started, rpcConnected, stratumListening, recalculateTargetInterval,
                stopPromise, connectTimeoutLive, pendingTimers>>

\* stop(): a no-op unless started.
StopCall == IF started THEN StopEffects ELSE StopVarsUnchanged

\* MiningPool.start()
PoolStart ==
    /\ ~assertFailed
    /\ lastCall' = [op |-> "start", wasStarted |-> started]
    /\ IF started
       THEN UNCHANGED <<shareVars, poolVars>>
       ELSE /\ tryConnecting < MaxAttempts
            /\ stopPromise' = "pending"
            /\ started' = TRUE
            /\ stratumListening' = TRUE
            /\ tryConnecting' = tryConnecting + 1
            /\ UNCHANGED <<shareVars, connectWarned, connectTimeoutLive, pendingTimers,
                           nextMiningRequestId, miningRequestBlocks, heap,
                           currentHeadTimestamp, currentHeadDifficulty,
                           recalculateTargetInterval, rpcConnected, consumers,
                           streamBuffered, submitBlockCalls, newWorkLog,
                           workersWaiting, poolWarnings, poolFailures, assertFailed>>

\* MiningPool.stop()
PoolStop ==
    /\ ~assertFailed
    /\ lastCall' = [op |-> "stop", wasStarted |-> started]
    /\ StopCall
    /\ UNCHANGED <<shareVars, connectWarned, nextMiningRequestId, miningRequestBlocks,
                   heap, currentHeadTimestamp, currentHeadDifficulty, tryConnecting,
                   consumers, streamBuffered, submitBlockCalls, newWorkLog,
                   workersWaiting, poolWarnings, poolFailures, assertFailed>>

\* A mutant of WarningsAfterFailure: every failure warns.
WarningsEveryFailure(warned, warnings) == warnings + 1

\* if (!this.connectWarned) { this.logger.warn(...); this.connectWarned = true }
WarningsAfterFailure(warned, warnings) == IF warned THEN warnings ELSE warnings + 1

\* startConnectingRpc() from the point where rpc.tryConnect() settles.
TryConnectDone(connected) ==
    /\ ~assertFailed
    /\ tryConnecting > 0
    /\ tryConnecting' = tryConnecting - 1
    /\ rpcConnected' = (connected \/ rpcConnected)
    /\ lastCall' = [op |-> "tryConnectDone", connected |-> connected,
                    wasStarted |-> started, failures |-> poolFailures,
                    warnings |-> poolWarnings]
    /\ IF ~started
       THEN UNCHANGED <<connectWarned, connectTimeoutLive, pendingTimers, consumers,
                        poolWarnings, poolFailures>>
       ELSE IF ~connected
       THEN /\ pendingTimers < MaxAttempts
            /\ connectWarned' = TRUE
            /\ poolWarnings' = WarningsAfterFailure(connectWarned, poolWarnings)
            /\ poolFailures' = IF poolFailures < MaxStreak THEN poolFailures + 1
                               ELSE poolFailures
            /\ pendingTimers' = pendingTimers + 1
            /\ connectTimeoutLive' = TRUE
            /\ UNCHANGED consumers
       ELSE /\ consumers < MaxConsumers
            /\ connectWarned' = FALSE
            /\ poolWarnings' = 0
            /\ poolFailures' = 0
            /\ consumers' = consumers + 1
            /\ UNCHANGED <<connectTimeoutLive, pendingTimers>>
    /\ UNCHANGED <<shareVars, started, stopPromise, nextMiningRequestId,
                   miningRequestBlocks, heap, currentHeadTimestamp,
                   currentHeadDifficulty, recalculateTargetInterval, streamBuffered,
                   submitBlockCalls, stratumListening, newWorkLog, workersWaiting,
                   assertFailed>>

\* The 5000 ms timer of startConnectingRpc fires: the one connectTimeout
\* refers to (tracked), or an earlier one that a later timer replaced there.
ConnectTimerFires(tracked) ==
    /\ ~assertFailed
    /\ tryConnecting < MaxAttempts
    /\ IF tracked THEN connectTimeoutLive
       ELSE pendingTimers > (IF connectTimeoutLive THEN 1 ELSE 0)
    /\ pendingTimers' = pendingTimers - 1
    /\ connectTimeoutLive' = (connectTimeoutLive /\ ~tracked)
    /\ tryConnecting' = tryConnecting + 1
    /\ lastCall' = [op |-> "connectTimer", wasStarted |-> started]
    /\ UNCHANGED <<shareVars, started, stopPromise, connectWarned, nextMiningRequestId,
                   miningRequestBlocks, heap, currentHeadTimestamp,
                   currentHeadDifficulty, recalculateTargetInterval, rpcConnected,
                   consumers, streamBuffered, submitBlockCalls, stratumListening,
                   newWorkLog, workersWaiting, poolWarnings, poolFailures, assertFailed>>

\* The node connection closes; onDisconnectRpc runs if it is registered,
\* which it is from start() to stop().
RpcClose ==
    /\ ~assertFailed
    /\ rpcConnected
    /\ rpcConnected' = FALSE
    /\ lastCall' = [op |-> "rpcClose", wasStarted |-> started]
    /\ IF started
       THEN /\ tryConnecting < MaxAttempts
            /\ workersWaiting' = TRUE
            /\ tryConnecting' = tryConnecting + 1
       ELSE UNCHANGED <<workersWaiting, tryConnecting>>
    /\ UNCHANGED <<shareVars, started, stopPromise, connectWarned, connectTimeoutLive,
                   pendingTimers, nextMiningRequestId, miningRequestBlocks, heap,
                   currentHeadTimestamp, currentHeadDifficulty,
                   recalculateTargetInterval, consumers, streamBuffered,
                   submitBlockCalls, stratumListening, newWorkLog, poolWarnings,
                   poolFailures, assertFailed>>

\* The node pushes a block template onto the stream of a running consumer.
NodePushesTemplate ==
    /\ ~assertFailed
    /\ rpcConnected
    /\ consumers > 0
    /\ streamBuffered < MaxBuffered
    /\ streamBuffered' = streamBuffered + 1
    /\ lastCall' = [op |-> "nodePush"]
    /\ UNCHANGED <<shareVars, started, stopPromise, connectWarned, connectTimeoutLive,
                   pendingTimers, nextMiningRequestId, miningRequestBlocks, heap,
                   currentHeadTimestamp, currentHeadDifficulty,
                   recalculateTargetInterval, rpcConnected, tryConnecting, consumers,
                   submitBlockCalls, stratumListening, newWorkLog, workersWaiting,
                   poolWarnings, poolFailures, assertFailed>>

\* A mutant of AssignedId: the counter is advanced before it is read.
AssignedIdPreIncrement(id) == id + 1

\* const miningRequestId = this.nextMiningRequestId++: the value read.
AssignedId(id) == id

\* A mutant of NextId: the counter is not advanced.
SameId(id) == id

\* this.nextMiningRequestId++
NextId(id) == id + 1

\* A mutant of MapSet: nothing is stored.
MapSetNothing(map, id, ref) == map

\* Map.prototype.set on a job map kept as a sequence indexed by id + 1; an
\* ID that leaves a gap stores NoRef under the IDs it skips.
MapSet(map, id, ref) ==
    [i \in 1..(IF id + 1 > Len(map) THEN id + 1 ELSE Len(map)) |->
        IF i = id + 1 THEN ref ELSE IF i <= Len(map) THEN map[i] ELSE NoRef]

\* distributeNewBlock(newBlock), newBlock being heap2[ref]; heap2 is the heap
\* after the caller's writes.
DistributeNewBlock(heap2, ref) ==
    /\ heap' = heap2
    /\ nextMiningRequestId' = NextId(nextMiningRequestId)
    /\ miningRequestBlocks' = MapSet(miningRequestBlocks, AssignedId(nextMiningRequestId), ref)
    /\ newWorkLog' = Append(newWorkLog,
          [miningRequestId |-> AssignedId(nextMiningRequestId), ref |-> ref,
           header |-> heap2[ref]])
    /\ workersWaiting' = FALSE

\* The template the node sends: its header, with the node's graffiti.
Template(netTarget) ==
    [target |-> ToHex(netTarget), timestamp |-> now, graffiti |-> NodeGraffiti,
     randomness |-> 0]

\* A mutant of HeadTimestamp: the head's timestamp is not recorded.
HeadTimestampNotRecorded(timestamp) == NullValue

\* this.currentHeadTimestamp = payload.previousBlockInfo.timestamp
HeadTimestamp(timestamp) == <<timestamp>>

\* One iteration of the for await loop of processNewBlocks; a payload
\* without previousBlockInfo makes the assertion throw, the loop's promise
\* reject and the catch of startConnectingRpc call stop().
ProcessNewBlock(netTarget, hasPrevious) ==
    /\ ~assertFailed
    /\ consumers > 0
    /\ streamBuffered > 0
    /\ nextMiningRequestId < MaxJobs
    /\ streamBuffered' = streamBuffered - 1
    /\ lastCall' = [op |-> "processNewBlock", hasPrevious |-> hasPrevious,
                    wasStarted |-> started]
    /\ IF ~hasPrevious
       THEN /\ consumers' = consumers - 1
            /\ StopCall
            /\ UNCHANGED <<nextMiningRequestId, miningRequestBlocks, heap,
                           currentHeadTimestamp, currentHeadDifficulty, newWorkLog,
                           workersWaiting>>
       ELSE /\ recalculateTargetInterval' = "armed"
            /\ currentHeadDifficulty' = ToDifficulty(netTarget)
            /\ currentHeadTimestamp' = HeadTimestamp(now)
            /\ DistributeNewBlock(Append(heap, Template(netTarget)), Len(heap) + 1)
            /\ UNCHANGED <<started, rpcConnected, stratumListening, stopPromise,
                           connectTimeoutLive, pendingTimers, consumers>>
    /\ UNCHANGED <<shareVars, connectWarned, tryConnecting, submitBlockCalls,
                   poolWarnings, poolFailures, assertFailed>>

\* The stream of a consumer ends: its loop returns.
StreamEnds ==
    /\ ~assertFailed
    /\ consumers > 0
    /\ consumers' = consumers - 1
    /\ streamBuffered' = IF consumers = 1 THEN 0 ELSE streamBuffered
    /\ lastCall' = [op |-> "streamEnds"]
    /\ UNCHANGED <<shareVars, started, stopPromise, connectWarned, connectTimeoutLive,
                   pendingTimers, nextMiningRequestId, miningRequestBlocks, heap,
                   currentHeadTimestamp, currentHeadDifficulty,
                   recalculateTargetInterval, rpcConnected, tryConnecting,
                   submitBlockCalls, stratumListening, newWorkLog, workersWaiting,
                   poolWarnings, poolFailures, assertFailed>>

\* The stream of a consumer fails: the catch of startConnectingRpc calls stop().
StreamError ==
    /\ ~assertFailed
    /\ consumers > 0
    /\ consumers' = consumers - 1
    /\ streamBuffered' = IF consumers = 1 THEN 0 ELSE streamBuffered
    /\ lastCall' = [op |-> "streamError", wasStarted |-> started]
    /\ StopCall
    /\ UNCHANGED <<shareVars, connectWarned, nextMiningRequestId, miningRequestBlocks,
                   heap, currentHeadTimestamp, currentHeadDifficulty, tryConnecting,
                   submitBlockCalls, newWorkLog, workersWaiting, poolWarnings,
                   poolFailures, assertFailed>>

\* A mutant of Retargeted: the timestamp is left alone.
RetargetedTargetOnly(block, newTarget) == [block EXCEPT !.target = ToHex(newTarget)]

\* latestBlock.header.target = ...; latestBlock.header.timestamp = newTime.getTime()
Retargeted(block, newTarget) ==
    [block EXCEPT !.target = ToHex(newTarget), !.timestamp = now]

\* The interval callback: recalculateTarget().  newTarget is what
\* Target.fromDifficulty(Target.calculateDifficulty(...)) returns.
RecalculateTarget(newTarget) ==
    /\ ~assertFailed
    /\ recalculateTargetInterval = "armed"
    /\ nextMiningRequestId < MaxJobs
    /\ lastCall' = [op |-> "recalculateTarget", wasStarted |-> started]
    /\ IF \/ currentHeadTimestamp = NullValue
          \/ currentHeadDifficulty = NullValue
          \/ BlockRef(nextMiningRequestId - 1) = NoRef
       THEN /\ assertFailed' = TRUE
            /\ UNCHANGED <<nextMiningRequestId, miningRequestBlocks, heap, newWorkLog,
                           workersWaiting>>
       ELSE LET ref == BlockRef(nextMiningRequestId - 1) IN
            /\ DistributeNewBlock(
                  [heap EXCEPT ![ref] = Retargeted(heap[ref], newTarget)], ref)
            /\ UNCHANGED assertFailed
    /\ UNCHANGED <<shareVars, started, stopPromise, connectWarned, connectTimeoutLive,
                   pendingTimers, currentHeadTimestamp, currentHeadDifficulty,
                   recalculateTargetInterval, rpcConnected, tryConnecting, consumers,
                   streamBuffered, submitBlockCalls, stratumListening, poolWarnings,
                   poolFailures>>

\* BufferLess on the buffers of the model, evaluated once.
Buffers == Hashes \cup NetTargets \cup {target}
LessTable == [pair \in Buffers \X Buffers |-> BufferLess(pair[1], pair[2])]

\* A mutant of BeatsPoolTarget: every hash is a share.
AlwaysBeatsPoolTarget(hashedHeader) == TRUE

\* hashedHeader < this.target
BeatsPoolTarget(hashedHeader) == LessTable[<<hashedHeader, target>>]

\* hashedHeader < Buffer.from(blockTemplate.header.target, 'hex')
BeatsNetworkTarget(hashedHeader, blockTemplate) ==
    LessTable[<<hashedHeader, FromHex(blockTemplate.target)>>]

\* submitWork(client, miningRequestId, randomness, graffiti).  hashedHeader
\* is what blake3 returns for the header bytes; it is computed only past the
\* two rejections.
SubmitWork(miningRequestId, randomness, graffiti) ==
    /\ ~assertFailed
    /\ stratumListening
    /\ IF ~IsLatest(miningRequestId) \/ BlockRef(miningRequestId) = NoRef
       THEN /\ lastCall' = [op |-> "submitWork", rejected |-> TRUE,
                            stale |-> (miningRequestId # nextMiningRequestId - 1)]
            /\ UNCHANGED <<heap, shares, submitBlockCalls>>
       ELSE LET ref == BlockRef(miningRequestId)
                blockTemplate == [heap[ref] EXCEPT !.graffiti = ToHex(graffiti),
                                                   !.randomness = randomness]
            IN
            \E hashedHeader \in Hashes :
                /\ lastCall' = [op |-> "submitWork", rejected |-> FALSE,
                                stale |-> (miningRequestId # nextMiningRequestId - 1),
                                miningRequestId |-> miningRequestId,
                                hashedHeader |-> hashedHeader]
                /\ heap' = [heap EXCEPT ![ref] = blockTemplate]
                /\ IF BeatsPoolTarget(hashedHeader)
                   THEN /\ Len(shares) < MaxShares
                        /\ shares' = Pushed(ToHex(graffiti), miningRequestId, randomness)
                   ELSE UNCHANGED shares
                /\ IF BeatsNetworkTarget(hashedHeader, blockTemplate)
                   THEN /\ submitBlockCalls < MaxBlocks
                        /\ submitBlockCalls' = submitBlockCalls + 1
                   ELSE UNCHANGED submitBlockCalls
    /\ UNCHANGED <<dbRows, now, started, stopPromise, connectWarned,
                   connectTimeoutLive, pendingTimers, nextMiningRequestId,
                   miningRequestBlocks, currentHeadTimestamp, currentHeadDifficulty,
                   recalculateTargetInterval, rpcConnected, tryConnecting, consumers,
                   streamBuffered, stratumListening, newWorkLog, workersWaiting,
                   poolWarnings, poolFailures, assertFailed>>

(***************************************************************************)
(* StratumClient                                                           *)
(***************************************************************************)
\* A mutant of SendGuard: the message is sent whatever the connection state.
SendAlways == TRUE

\* send(): if (!this.connected) return
SendGuard == cConnected

\* A mutant of Message: the parameters are left out.
MessageWithoutParams(method, params) ==
    [id |-> nextMessageId, method |-> method, params |-> <<>>]

\* The message subscribe() and submit() build: id: this.nextMessageId++
Message(method, params) == [id |-> nextMessageId, method |-> method, params |-> params]

\* send(message), with the connection state it reads given: nothing if not
\* connected, else the entry in requestsSent and the line on the socket.
Send(message, isConnected) ==
    IF ~isConnected
    THEN UNCHANGED <<requestsSent, socketWrites>>
    ELSE /\ requestsSent' = {e \in requestsSent : e[1] # message.id}
                            \cup {<<message.id, message.method>>}
         /\ socketWrites' = Append(socketWrites, message)

\* startConnecting() up to its await: connectSocket() calls socket.connect.
StartConnecting ==
    /\ cConnecting < MaxAttempts
    /\ socketConnects < MaxConnects
    /\ cConnecting' = cConnecting + 1
    /\ socketConnects' = socketConnects + 1

\* A mutant of ClientAlreadyStarted: start() does not look at the flag.
ClientNeverStarted == FALSE

\* start(): if (this.started) return
ClientAlreadyStarted == cStarted

\* StratumClient.start()
ClientStart ==
    /\ lastCall' = [op |-> "clientStart", wasStarted |-> cStarted]
    /\ IF ClientAlreadyStarted
       THEN UNCHANGED <<cStarted, cConnecting, socketConnects>>
       ELSE /\ cStarted' = TRUE
            /\ StartConnecting
    /\ minerCalls' = <<>>
    /\ UNCHANGED <<cConnected, cConnectWarned, cTimers, cSocket, cGraffiti,
                   requestsSent, nextMessageId, socketWrites, cStopCalled, cWarnings,
                   cFailures>>

\* StratumClient.stop(): this.socket.end().  An open socket is half-closed
\* and its close event follows.
ClientStop ==
    /\ lastCall' = [op |-> "clientStop", socket |-> cSocket]
    /\ cStopCalled' = TRUE
    /\ cSocket' = IF cSocket = "open" THEN "ending" ELSE cSocket
    /\ minerCalls' = <<>>
    /\ UNCHANGED <<cStarted, cConnected, cConnectWarned, cConnecting, cTimers,
                   cGraffiti, requestsSent, nextMessageId, socketWrites,
                   socketConnects, cWarnings, cFailures>>

\* if (!this.connectWarned) { this.logger.warn(...); this.connectWarned = true }
ClientWarningsAfterFailure(warned, warnings) ==
    IF warned THEN warnings ELSE warnings + 1

\* startConnecting() from the point where connectSocket() settles; on
\* success onConnect() sets connected and subscribes with the session's
\* graffiti.
ClientConnectDone(connected) ==
    /\ cConnecting > 0
    /\ cConnecting' = cConnecting - 1
    /\ cSocket' = IF connected THEN "open" ELSE cSocket
    /\ lastCall' = [op |-> "clientConnectDone", connected |-> connected,
                    wasStarted |-> cStarted, wasConnected |-> cConnected,
                    failures |-> cFailures, warnings |-> cWarnings]
    /\ minerCalls' = <<>>
    /\ IF ~cStarted
       THEN UNCHANGED <<cConnected, cConnectWarned, cTimers, requestsSent,
                        nextMessageId, socketWrites, cWarnings, cFailures>>
       ELSE IF ~connected
       THEN /\ cTimers < MaxAttempts
            /\ cConnectWarned' = TRUE
            /\ cWarnings' = ClientWarningsAfterFailure(cConnectWarned, cWarnings)
            /\ cFailures' = IF cFailures < MaxStreak THEN cFailures + 1 ELSE cFailures
            /\ cTimers' = cTimers + 1
            /\ UNCHANGED <<cConnected, requestsSent, nextMessageId, socketWrites>>
       ELSE /\ nextMessageId < MaxMessages
            /\ cConnectWarned' = FALSE
            /\ cWarnings' = 0
            /\ cFailures' = 0
            /\ cConnected' = TRUE
            /\ nextMessageId' = nextMessageId + 1
            /\ Send(Message("mining.subscribe", ToHex(cGraffiti)), TRUE)
            /\ UNCHANGED cTimers
    /\ UNCHANGED <<cStarted, cGraffiti, socketConnects, cStopCalled>>

\* The 5000 ms timer of startConnecting fires.
ClientTimerFires ==
    /\ cTimers > 0
    /\ cTimers' = cTimers - 1
    /\ StartConnecting
    /\ lastCall' = [op |-> "clientTimer"]
    /\ minerCalls' = <<>>
    /\ UNCHANGED <<cStarted, cConnected, cConnectWarned, cSocket, cGraffiti,
                   requestsSent, nextMessageId, socketWrites, cStopCalled, cWarnings,
                   cFailures>>

\* The socket closes: after end(), or because the pool dropped the
\* connection.  onDisconnect is registered from onConnect() on.
ClientSocketClose ==
    /\ cSocket \in {"open", "ending"}
    /\ cSocket' = "closed"
    /\ lastCall' = [op |-> "clientSocketClose", wasConnected |-> cConnected]
    /\ IF cConnected
       THEN /\ cConnected' = FALSE
            /\ minerCalls' = <<"waitForWork">>
            /\ StartConnecting
       ELSE /\ minerCalls' = <<>>
            /\ UNCHANGED <<cConnected, cConnecting, socketConnects>>
    /\ UNCHANGED <<cStarted, cConnectWarned, cTimers, cGraffiti, requestsSent,
                   nextMessageId, socketWrites, cStopCalled, cWarnings, cFailures>>

\* StratumClient.subscribe(graffiti)
ClientSubscribe(graffiti) ==
    /\ nextMessageId < MaxMessages
    /\ lastCall' = [op |-> "subscribe", wasConnected |-> cConnected]
    /\ nextMessageId' = nextMessageId + 1
    /\ Send(Message("mining.subscribe", ToHex(graffiti)), SendGuard)
    /\ minerCalls' = <<>>
    /\ UNCHANGED <<cStarted, cConnected, cConnectWarned, cConnecting, cTimers,
                   cSocket, cGraffiti, socketConnects, cStopCalled, cWarnings,
                   cFailures>>

\* StratumClient.submit(miningRequestId, randomness, graffiti)
ClientSubmit(miningRequestId, randomness, graffiti) ==
    /\ nextMessageId < MaxMessages
    /\ lastCall' = [op |-> "submit", wasConnected |-> cConnected]
    /\ nextMessageId' = nextMessageId + 1
    /\ Send(Message("mining.submit", <<miningRequestId, randomness, ToHex(graffiti)>>),
            SendGuard)
    /\ minerCalls' = <<>>
    /\ UNCHANGED <<cStarted, cConnected, cConnectWarned, cConnecting, cTimers,
                   cSocket, cGraffiti, socketConnects, cStopCalled, cWarnings,
                   cFailures>>

\* A parsed line without an id: payload.id == null.
NoId == -1

\* The request IDs a response may carry: of the first subscribe request, of
\* the request after it, and one that no request was given.
ResponseIds == {0, 1, MaxMessages}

\* The graffiti the pool assigns in its answer to a subscribe request.
ResultGraffitis == {<<195>>}

\* One line of inbound data: text that JSON.parse accepts (valid), with the
\* method, the id and the result of the parsed object, or text it rejects.
DataLine(valid, method, id, result) ==
    [valid |-> valid, method |-> method, id |-> id, result |-> result]

DataLines ==
    {DataLine(TRUE, m, NoId, <<>>) :
        m \in {"mining.set_target", "mining.notify", "mining.wait_for_work",
               "mining.unknown"}}
    \cup {DataLine(TRUE, Null, id, ToHex(g)) : id \in ResponseIds, g \in ResultGraffitis}
    \cup {DataLine(TRUE, Null, NoId, <<>>), DataLine(FALSE, Null, NoId, <<>>)}

\* data.toString().trim().split('\n'): the chunks of one to MaxLines lines,
\* of which at most one is not a mining.notify.
Chunks ==
    {chunk \in UNION {[1..n -> DataLines] : n \in 1..MaxLines} :
        Cardinality({i \in DOMAIN chunk : chunk[i].method # "mining.notify"}) <= 1}

\* this.requestsSent.get(id)
RequestsSentGet(id) ==
    IF \E e \in requestsSent : e[1] = id
    THEN (CHOOSE e \in requestsSent : e[1] = id)[2]
    ELSE Null

\* The call on the miner that a notification makes.
MinerCallOf(method) ==
    CASE method = "mining.set_target" -> <<"setTarget">>
      [] method = "mining.notify" -> <<"newWork">>
      [] method = "mining.wait_for_work" -> <<"waitForWork">>
      [] OTHER -> <<>>

\* A mutant of AfterUnmatched: the loop goes on to the next line.
ContinueAfterUnmatched(i, n) == i + 1

\* if (responseType == null) { ...; return }: the loop is left, which is
\* the same as going on after the last line n.
AfterUnmatched(i, n) == n + 1

\* The for loop of onData from line i on.  st is what the lines before have
\* done: the graffiti, the calls made on the miner, the lines that were
\* handled to their end, and whether JSON.parse threw.
RECURSIVE HandleLines(_, _, _)
HandleLines(chunk, i, st) ==
    IF i > Len(chunk) THEN st
    ELSE LET line == chunk[i]
             done == [st EXCEPT !.handled = Append(st.handled, i)]
         IN
         IF ~line.valid THEN [st EXCEPT !.threw = TRUE]
         ELSE IF line.method # Null
         THEN HandleLines(chunk, i + 1,
                 [done EXCEPT !.calls = st.calls \o MinerCallOf(line.method)])
         ELSE IF line.id # NoId
         THEN LET responseType == RequestsSentGet(line.id) IN
              IF responseType = Null
              THEN HandleLines(chunk, AfterUnmatched(i, Len(chunk)), st)
              ELSE IF responseType = "mining.subscribe"
              THEN HandleLines(chunk, i + 1,
                      [done EXCEPT !.graffiti = FromHex(line.result),
                                   !.calls = st.calls \o <<"setGraffiti">>])
              ELSE HandleLines(chunk, i + 1, done)
         ELSE HandleLines(chunk, i + 1, done)

\* The socket's 'data' event: onData(data).  No entry of requestsSent is
\* removed.  An exception of JSON.parse leaves the handler.
OnData(chunk) ==
    /\ cSocket \in {"open", "ending"}
    /\ LET st == HandleLines(chunk, 1, [graffiti |-> cGraffiti, calls |-> <<>>,
                                       handled |-> <<>>, threw |-> FALSE])
       IN
       /\ cGraffiti' = st.graffiti
       /\ minerCalls' = st.calls
       /\ lastCall' = [op |-> "onData", chunk |-> chunk, handled |-> st.handled,
                       threw |-> st.threw]
    /\ UNCHANGED <<cStarted, cConnected, cConnectWarned, cConnecting, cTimers,
                   cSocket, requestsSent, nextMessageId, socketWrites,
                   socketConnects, cStopCalled, cWarnings, cFailures>>

(***************************************************************************)
(* The state after construction, and the specifications.                   *)
(***************************************************************************)
Init ==
    /\ shares = <<>>
    /\ dbRows = 0
    /\ now = 0
    /\ started = FALSE
    /\ stopPromise = Null
    /\ connectWarned = FALSE
    /\ connectTimeoutLive = FALSE
    /\ pendingTimers = 0
    /\ nextMiningRequestId = 0
    /\ miningRequestBlocks = <<>>
    /\ heap = <<>>
    /\ currentHeadTimestamp = NullValue
    /\ currentHeadDifficulty = NullValue
    /\ recalculateTargetInterval = Null
    /\ rpcConnected = FALSE
    /\ tryConnecting = 0
    /\ consumers = 0
    /\ streamBuffered = 0
    /\ submitBlockCalls = 0
    /\ stratumListening = FALSE
    /\ newWorkLog = <<>>
    /\ workersWaiting = FALSE
    /\ poolWarnings = 0
    /\ poolFailures = 0
    /\ assertFailed = FALSE
    /\ cStarted = FALSE
    /\ cConnected = FALSE
    /\ cConnectWarned = FALSE
    /\ cConnecting = 0
    /\ cTimers = 0
    /\ cSocket = "closed"
    /\ cGraffiti \in Graffitis
    /\ requestsSent = {}
    /\ nextMessageId = 0
    /\ socketWrites = <<>>
    /\ socketConnects = 0
    /\ cStopCalled = FALSE
    /\ cWarnings = 0
    /\ cFailures = 0
    /\ minerCalls = <<>>
    /\ lastCall = [op |-> "new"]

\* The ledger alone, driven through its public methods.
SharesNext ==
    \/ \E g \in Graffitis, id \in 0..1, r \in Randomness :
          SubmitShare(ToHex(g), id, r) /\ UNCHANGED <<poolVars, clientVars>>
    \/ \E g \in Graffitis, id \in 0..1, r \in Randomness, inserted \in BOOLEAN :
          SubmitSharePersistent(ToHex(g), id, r, inserted)
          /\ UNCHANGED <<poolVars, clientVars>>
    \/ Tick /\ UNCHANGED <<poolVars, clientVars>>

SpecShares == Init /\ [][SharesNext]_vars

\* The pool orchestrator: its life cycle, the node link, the template stream
\* and the retarget timer.
Next ==
    \/ PoolStart /\ UNCHANGED clientVars
    \/ PoolStop /\ UNCHANGED clientVars
    \/ \E connected \in BOOLEAN : TryConnectDone(connected) /\ UNCHANGED clientVars
    \/ \E tracked \in BOOLEAN : ConnectTimerFires(tracked) /\ UNCHANGED clientVars
    \/ RpcClose /\ UNCHANGED clientVars
    \/ NodePushesTemplate /\ UNCHANGED clientVars
    \/ \E t \in NetTargets, hasPrevious \in BOOLEAN :
          ProcessNewBlock(t, hasPrevious) /\ UNCHANGED clientVars
    \/ StreamEnds /\ UNCHANGED clientVars
    \/ StreamError /\ UNCHANGED clientVars
    \/ \E t \in NetTargets : RecalculateTarget(t) /\ UNCHANGED clientVars

Spec == Init /\ [][Next]_vars

\* The pool at work: a node that accepts the connection and whose stream
\* stays up, templates, retarget ticks, submissions and the clock.
WorkNext ==
    \/ PoolStart /\ UNCHANGED clientVars
    \/ TryConnectDone(TRUE) /\ UNCHANGED clientVars
    \/ NodePushesTemplate /\ UNCHANGED clientVars
    \/ \E t \in NetTargets : ProcessNewBlock(t, TRUE) /\ UNCHANGED clientVars
    \/ \E t \in NetTargets : RecalculateTarget(t) /\ UNCHANGED clientVars
    \/ \E id \in SubmitIds, r \in WorkRandomness, g \in WorkGraffitis :
          SubmitWork(id, r, g) /\ UNCHANGED clientVars
    \/ Tick /\ UNCHANGED <<poolVars, clientVars>>

SpecWork == Init /\ [][WorkNext]_vars

\* The worker session.
ClientNext ==
    \/ ClientStart /\ UNCHANGED <<shareVars, poolVars>>
    \/ ClientStop /\ UNCHANGED <<shareVars, poolVars>>
    \/ \E connected \in BOOLEAN :
          ClientConnectDone(connected) /\ UNCHANGED <<shareVars, poolVars>>
    \/ ClientTimerFires /\ UNCHANGED <<shareVars, poolVars>>
    \/ ClientSocketClose /\ UNCHANGED <<shareVars, poolVars>>
    \/ \E g \in Graffitis : ClientSubscribe(g) /\ UNCHANGED <<shareVars, poolVars>>
    \/ \E id \in 0..1, r \in WorkRandomness, g \in Graffitis :
          ClientSubmit(id, r, g) /\ UNCHANGED <<shareVars, poolVars>>

SpecClient == Init /\ [][ClientNext]_vars

\* The worker session's requests and the data it receives, over connections
\* that open and close.
DataNext ==
    \/ ClientStart /\ UNCHANGED <<shareVars, poolVars>>
    \/ ClientConnectDone(TRUE) /\ UNCHANGED <<shareVars, poolVars>>
    \/ ClientSocketClose /\ UNCHANGED <<shareVars, poolVars>>
    \/ \E g \in WorkGraffitis :
          ClientSubmit(0, 1, g) /\ UNCHANGED <<shareVars, poolVars>>
    \/ \E chunk \in Chunks : OnData(chunk) /\ UNCHANGED <<shareVars, poolVars>>

SpecData == Init /\ [][DataNext]_vars

\* The worker session's pool link and the pool's node link: the two connect
\* loops, without templates, submissions or requests.
ConnectNext ==
    \/ PoolStart /\ UNCHANGED clientVars
    \/ PoolStop /\ UNCHANGED clientVars
    \/ \E connected \in BOOLEAN : TryConnectDone(connected) /\ UNCHANGED clientVars
    \/ \E tracked \in BOOLEAN : ConnectTimerFires(tracked) /\ UNCHANGED clientVars
    \/ RpcClose /\ UNCHANGED clientVars
    \/ StreamEnds /\ UNCHANGED clientVars
    \/ ClientStart /\ UNCHANGED <<shareVars, poolVars>>
    \/ ClientStop /\ UNCHANGED <<shareVars, poolVars>>
    \/ \E connected \in BOOLEAN :
          ClientConnectDone(connected) /\ UNCHANGED <<shareVars, poolVars>>
    \/ ClientTimerFires /\ UNCHANGED <<shareVars, poolVars>>
    \/ ClientSocketClose /\ UNCHANGED <<shareVars, poolVars>>

SpecConnect == Init /\ [][ConnectNext]_vars

\* The instant of the model clock t, as Date.getTime() gives it: one tick of
\* the clock is the length of the hash rate window.
getTime(t) == t * HASHRATE_TIME_CUTOFF_MILLISECONDS

\* new Date(ms), for a number of milliseconds that is a whole number of ticks.
DateOf(ms) == ms \div HASHRATE_TIME_CUTOFF_MILLISECONDS

\* A mutant of Rate: the quotient rounded up.
RateRoundedUp(totalShares) ==
    (totalShares * difficulty + HASHRATE_TIME_CUTOFF_SECONDS - 1)
       \div HASHRATE_TIME_CUTOFF_SECONDS

\* Number((BigInt(totalShares) * this.difficulty) /
\* BigInt(HASHRATE_TIME_CUTOFF_SECONDS)): the quotient of two BigInts.
Rate(totalShares) == (totalShares * difficulty) \div HASHRATE_TIME_CUTOFF_SECONDS

\* MiningPool.hashrate
hashrate ==
    LET timeCutoff == DateOf(getTime(now) - HASHRATE_TIME_CUTOFF_MILLISECONDS)
    IN  Rate(totalShareCountSince(timeCutoff))

\* MiningPool.graffitiHashrate
graffitiHashrate(graffiti) ==
    LET timeCutoff == DateOf(getTime(now) - HASHRATE_TIME_CUTOFF_MILLISECONDS)
    IN  Rate(graffitiShareCountSince(graffiti, timeCutoff))

\* The pool records a share of a miner: shares.submitShare, as submitWork
\* calls it.
RecordShare(graffiti) ==
    /\ Len(shares) < MaxWindowShares
    /\ shares' = Pushed(ToHex(graffiti), 0, 1)
    /\ lastCall' = [op |-> "recordShare", graffiti |-> ToHex(graffiti)]
    /\ UNCHANGED <<dbRows, now>>

\* A call of hashrate().
Hashrate ==
    /\ lastCall' = [op |-> "hashrate", value |-> hashrate]
    /\ UNCHANGED shareVars

\* A call of graffitiHashrate(graffiti).
GraffitiHashrate(graffiti) ==
    /\ lastCall' = [op |-> "graffitiHashrate", graffiti |-> ToHex(graffiti),
                    value |-> graffitiHashrate(ToHex(graffiti))]
    /\ UNCHANGED shareVars

\* The hash rate of the pool over a ledger that fills while time passes.
HashrateNext ==
    \/ \E g \in Graffitis : RecordShare(g) /\ UNCHANGED <<poolVars, clientVars>>
    \/ Tick /\ UNCHANGED <<poolVars, clientVars>>
    \/ Hashrate /\ UNCHANGED <<poolVars, clientVars>>
    \/ \E g \in Graffitis : GraffitiHashrate(g) /\ UNCHANGED <<poolVars, clientVars>>

SpecHashrate == Init /\ [][HashrateNext]_vars

(***************************************************************************)
(* The claims.                                                             *)
(***************************************************************************)
Last(s) == s[Len(s)]

\* The submitWork call that just ran passed both rejections.
Validated == lastCall.op = "submitWork" /\ ~lastCall.rejected

\* C1: a submitWork call whose miningRequestId is not nextMiningRequestId - 1
\* appends no share, calls rpc.submitBlock zero times and leaves the stored
\* jobs as they were.
C1_StaleSubmissionRejected ==
    [][(lastCall'.op = "submitWork" /\ lastCall'.stale) =>
          /\ shares' = shares
          /\ submitBlockCalls' = submitBlockCalls
          /\ heap' = heap
          /\ miningRequestBlocks' = miningRequestBlocks]_vars

\* C1's case: a stale submission was just rejected while a superseded job and
\* a recorded share exist.
C1_Witness ==
    /\ lastCall.op = "submitWork"
    /\ lastCall.stale
    /\ nextMiningRequestId >= 2
    /\ Len(shares) >= 1

C3_OutcomesDecidedByTargets ==
    [][Validated' =>
          LET h == lastCall'.hashedHeader
              job == heap'[BlockRef(lastCall'.miningRequestId)]
          IN
          /\ Len(shares') = Len(shares) + (IF NumericLess(h, target) THEN 1 ELSE 0)
          /\ submitBlockCalls' = submitBlockCalls
                + (IF NumericLess(h, FromHex(job.target)) THEN 1 ELSE 0)]_vars

\* C4: every share is appended by a submitWork call whose header hash is below
\* the pool target, under the ID of the latest job at that moment; the ledger
\* changes in no other way.
C4_SharesAreVerified ==
    [][shares' # shares =>
          /\ Validated'
          /\ lastCall'.miningRequestId = nextMiningRequestId - 1
          /\ NumericLess(lastCall'.hashedHeader, target)
          /\ Len(shares') = Len(shares) + 1
          /\ SubSeq(shares', 1, Len(shares)) = shares
          /\ Last(shares').miningRequestId = nextMiningRequestId - 1]_vars

\* C5: once stop() has returned, no pending reconnect timer, in-flight connect
\* attempt or socket close event leads to another call of socket.connect (a
\* call of start() apart).
C5_NoConnectAfterStop ==
    [][(cStopCalled /\ lastCall'.op # "clientStart") =>
          socketConnects' = socketConnects]_vars

\* C6: once stop() has returned and until start() is called again, no retarget
\* tick runs, no node connect attempt starts, no job is broadcast, waitForStop()
\* stays resolved, and a further stop() changes nothing.
C6_StopLeavesPoolQuiescent ==
    [][(~started /\ stopPromise = "resolved" /\ ~started') =>
          /\ lastCall'.op # "recalculateTarget"
          /\ recalculateTargetInterval' # "armed"
          /\ tryConnecting' <= tryConnecting
          /\ newWorkLog' = newWorkLog
          /\ stopPromise' = "resolved"
          /\ (lastCall'.op = "stop" => UNCHANGED poolVars)]_vars

\* C7: when a connect attempt succeeds after N >= 1 failed attempts of the
\* running loop, exactly one warning was emitted for them; the success clears
\* the warned flag and is one transition to connected (the session's connected
\* flag goes from false to true, the pool starts one processNewBlocks).  While a
\* streak lasts the flag is set and one warning has been emitted.  For the
\* worker session and for the pool's node link.
C7_OneWarningPerStreak ==
    [][/\ (poolFailures' >= 1 => poolWarnings' = 1 /\ connectWarned')
       /\ (poolFailures' = 0 => poolWarnings' = 0)
       /\ (cFailures' >= 1 => cWarnings' = 1 /\ cConnectWarned')
       /\ (cFailures' = 0 => cWarnings' = 0 /\ ~cConnectWarned')
       /\ (lastCall'.op = "tryConnectDone" /\ lastCall'.connected
             /\ lastCall'.wasStarted =>
                /\ (lastCall'.failures >= 1 => lastCall'.warnings = 1)
                /\ ~connectWarned'
                /\ poolFailures' = 0
                /\ consumers' = consumers + 1)
       /\ (lastCall'.op = "clientConnectDone" /\ lastCall'.connected =>
                /\ (lastCall'.failures >= 1 => lastCall'.warnings = 1)
                /\ ~cConnected /\ cConnected'
                /\ cFailures' = 0)]_vars

\* C7's case: the session has just connected after a streak of MaxStreak failed
\* attempts, while the pool is in a streak of as many.
C7_Witness ==
    /\ lastCall.op = "clientConnectDone"
    /\ lastCall.connected
    /\ lastCall.failures = MaxStreak
    /\ cConnected
    /\ poolFailures = MaxStreak

\* C8: subscribe and submit called while not connected write nothing to the
\* socket and leave requestsSent and nextMessageId as they were.
C8_NoOpWhenNotConnected ==
    [][(lastCall'.op \in {"subscribe", "submit"} /\ ~lastCall'.wasConnected) =>
          /\ socketWrites' = socketWrites
          /\ requestsSent' = requestsSent
          /\ nextMessageId' = nextMessageId]_vars

C10_AppendOnly ==
    [][/\ ShareCount(shares') >= ShareCount(shares)
       /\ SubSeq(shares', 1, Len(shares)) = shares
       /\ \A g \in Graffitis :
             GraffitiCount(shares', ToHex(g)) >= GraffitiCount(shares, ToHex(g))
       /\ (lastCall'.op \in {"submitShare", "submitSharePersistent"} =>
             /\ ShareCount(shares') = ShareCount(shares) + 1
             /\ \A g \in Graffitis :
                   GraffitiCount(shares', ToHex(g)) =
                      GraffitiCount(shares, ToHex(g))
                      + (IF ToHex(g) = lastCall'.graffiti THEN 1 ELSE 0))]_vars

\* C10's case: the call that just ran appended a triple that was already in
\* the ledger, which also holds another graffiti.
C10_Witness ==
    /\ lastCall.op \in {"submitShare", "submitSharePersistent"}
    /\ Len(shares) >= 3
    /\ \E i \in 1..(Len(shares) - 1) :
          /\ shares[i].graffiti = Last(shares).graffiti
          /\ shares[i].miningRequestId = Last(shares).miningRequestId
          /\ shares[i].randomness = Last(shares).randomness
    /\ \E i \in 1..Len(shares) : shares[i].graffiti # Last(shares).graffiti

\* The cutoffs a caller may pass: every instant a share can be stamped with,
\* and one before and one after them.
Cutoffs == -1..(MaxTime + 1)

\* C11: on any ledger, for cutoffs t1 <= t2, totalShareCountSince(t2) <=
\* totalShareCountSince(t1) <= totalShareCount; the shares stamped at or before
\* the cutoff are not counted, those stamped after it are; the same for
\* graffitiShareCountSince within one graffiti.
C11_CountSinceMonotone ==
    /\ \A t1, t2 \in Cutoffs :
          t1 <= t2 =>
             /\ totalShareCountSince(t2) <= totalShareCountSince(t1)
             /\ totalShareCountSince(t1) <= totalShareCount
             /\ \A g \in Graffitis :
                   /\ graffitiShareCountSince(ToHex(g), t2)
                         <= graffitiShareCountSince(ToHex(g), t1)
                   /\ graffitiShareCountSince(ToHex(g), t1)
                         <= graffitiShareCount(ToHex(g))
    /\ \A t \in Cutoffs :
          /\ totalShareCountSince(t) + Cardinality({i \in 1..Len(shares) :
                                           shares[i].timestamp <= t})
                = totalShareCount
          /\ \A g \in Graffitis :
                graffitiShareCountSince(ToHex(g), t)
                   + Cardinality({i \in 1..Len(shares) :
                                     /\ shares[i].graffiti = ToHex(g)
                                     /\ shares[i].timestamp <= t})
                   = graffitiShareCount(ToHex(g))

\* C11's case: a ledger with a share stamped exactly at a cutoff and a share
\* stamped after it, so that the count drops from one cutoff to the next.
C11_Witness ==
    /\ \E i, j \in 1..Len(shares) :
          /\ shares[i].timestamp = 0
          /\ shares[j].timestamp = 1
          /\ shares[i].graffiti = shares[j].graffiti
    /\ totalShareCountSince(0) < totalShareCountSince(-1)
    /\ totalShareCountSince(1) < totalShareCountSince(0)

\* The shares of the ledger, of one graffiti, that are inside the window: less
\* than HASHRATE_TIME_CUTOFF_SECONDS old.
InWindow(graffitis) ==
    Cardinality({i \in 1..Len(shares) :
                    /\ shares[i].graffiti \in graffitis
                    /\ getTime(now) - getTime(shares[i].timestamp)
                          < HASHRATE_TIME_CUTOFF_MILLISECONDS})

AllGraffitis == {ToHex(g) : g \in Graffitis}

\* C12 as claimed: the hash rate times the window length is the number of
\* shares in the window times the pool difficulty, exactly, for one graffiti and
\* for all.
C12_HashrateIsExactQuotient ==
    /\ hashrate * HASHRATE_TIME_CUTOFF_SECONDS = InWindow(AllGraffitis) * difficulty
    /\ \A g \in AllGraffitis :
          graffitiHashrate(g) * HASHRATE_TIME_CUTOFF_SECONDS
             = InWindow({g}) * difficulty

\* C12 amended: graffitiHashrate(X) is the integer part of (shares of X stamped
\* less than 60 s ago) * poolDifficulty / 60, hashrate() the same over all
\* graffiti; the pool difficulty is 3,700,000, and with 5 shares of X in the
\* window graffitiHashrate(X) = 308333.
C12_HashrateIsFloorOfQuotient ==
    LET Floor(h, n) ==
           /\ h * HASHRATE_TIME_CUTOFF_SECONDS <= n * difficulty
           /\ n * difficulty < (h + 1) * HASHRATE_TIME_CUTOFF_SECONDS
    IN
    /\ difficulty = 3700000
    /\ Floor(hashrate, InWindow(AllGraffitis))
    /\ \A g \in AllGraffitis :
          /\ Floor(graffitiHashrate(g), InWindow({g}))
          /\ (InWindow({g}) = 5 => graffitiHashrate(g) = 308333)
    /\ (lastCall.op = "hashrate" => lastCall.value = hashrate)
    /\ (lastCall.op = "graffitiHashrate" =>
          lastCall.value = graffitiHashrate(lastCall.graffiti))

\* C12's case: graffitiHashrate(X) was just called with 5 shares of X in the
\* window, while the ledger also holds a share of X that has left the window.
C12_Witness ==
    /\ lastCall.op = "graffitiHashrate"
    /\ InWindow({lastCall.graffiti}) = 5
    /\ graffitiShareCount(lastCall.graffiti) > 5
    /\ lastCall.value = 308333

\* The call that just ran handled a failure of the template stream: the stream
\* threw, or a template came without previousBlockInfo.
StreamFailed(call) ==
    \/ call.op = "streamError"
    \/ call.op = "processNewBlock" /\ ~call.hasPrevious

StoredRef(map, id) == BlockRefIn(map, id)

C15_SubmissionWorksOnCopy ==
    [][/\ (Validated' => heap' = heap)
       /\ (lastCall'.op = "recalculateTarget" /\ ~assertFailed' =>
             /\ Last(newWorkLog').header.graffiti = NodeGraffiti
             /\ Last(newWorkLog').header.randomness = Template(target).randomness)]_vars

\* A line that is a response: valid JSON without a method and with an id.
IsResponse(line) == line.valid /\ line.method = Null /\ line.id # NoId

\* The IDs that have an entry in a correlation map.
IdsOf(map) == {e[1] : e \in map}

\* C16: an entry of requestsSent is removed when its response is dispatched,
\* and the close of a connected socket clears the map, so that a response to a
\* request of a previous connection, or to one already answered, finds no
\* entry.
C16_EntriesLiveUntilResponseOrReset ==
    [][/\ (lastCall'.op = "clientSocketClose" /\ lastCall'.wasConnected =>
             requestsSent' = {})
       /\ (lastCall'.op = "onData" =>
             \A k \in 1..Len(lastCall'.handled) :
                LET line == lastCall'.chunk[lastCall'.handled[k]] IN
                IsResponse(line) => line.id \notin IdsOf(requestsSent'))]_vars

\* The calls on the miner that the lines of a chunk make when each is handled
\* on its own, in order: a notification its call, the response to a subscribe
\* request setGraffiti, any other line nothing.
RECURSIVE CallsOfLines(_, _)
CallsOfLines(chunk, i) ==
    IF i > Len(chunk) THEN <<>>
    ELSE LET line == chunk[i]
             calls == IF ~line.valid THEN <<>>
                      ELSE IF line.method # Null THEN MinerCallOf(line.method)
                      ELSE IF /\ line.id # NoId
                              /\ <<line.id, "mining.subscribe">> \in requestsSent
                      THEN <<"setGraffiti">>
                      ELSE <<>>
         IN  calls \o CallsOfLines(chunk, i + 1)

\* C17: of a chunk of lines that are all JSON, every line is handled on its
\* own: a response with an unmatched ID, a notification with an unknown method
\* and an envelope with neither method nor id are dropped alone, the lines
\* before and after are dispatched to the miner in order, and the connection
\* stays open.
C17_LinesHandledIndependently ==
    [][(lastCall'.op = "onData"
          /\ \A i \in DOMAIN lastCall'.chunk : lastCall'.chunk[i].valid) =>
          /\ minerCalls' = CallsOfLines(lastCall'.chunk, 1)
          /\ cSocket' = cSocket
          /\ cConnected' = cConnected]_vars

\* C18: a line that is not JSON is dropped: no exception leaves onData,
\* connected, graffiti and requestsSent are as before, and the other lines of
\* the chunk are dispatched.
C18_InvalidJsonDropped ==
    [][(lastCall'.op = "onData"
          /\ \E i \in DOMAIN lastCall'.chunk : ~lastCall'.chunk[i].valid) =>
          /\ ~lastCall'.threw
          /\ cConnected' = cConnected
          /\ cGraffiti' = cGraffiti
          /\ requestsSent' = requestsSent
          /\ minerCalls' = CallsOfLines(lastCall'.chunk, 1)]_vars

\* C19: in every state of the worker session at most one connect attempt is
\* in flight or one retry timer pending, never both, and none while connected;
\* a new attempt starts only from a retry timer or from the close of a
\* connected socket, or from the first start(); a repeated start() starts none.
C19_ClientSingleFlight ==
    [][/\ cConnecting' + cTimers' <= 1
       /\ (cConnected' => cConnecting' + cTimers' = 0)
       /\ (socketConnects' # socketConnects =>
             /\ socketConnects' = socketConnects + 1
             /\ cConnecting = 0
             /\ \/ lastCall'.op = "clientStart" /\ ~lastCall'.wasStarted
                \/ lastCall'.op = "clientTimer" /\ cTimers = 1
                \/ lastCall'.op = "clientSocketClose" /\ lastCall'.wasConnected)
       /\ (lastCall'.op = "clientStart" /\ lastCall'.wasStarted =>
             UNCHANGED <<cConnecting, cTimers, socketConnects>>)]_vars

\* C19's case: start() was just called again while the loop's retry timer was
\* pending after a connection was lost and the attempt after it failed.
C19_Witness ==
    /\ lastCall.op = "clientStart"
    /\ lastCall.wasStarted
    /\ cTimers = 1
    /\ cConnecting = 0
    /\ socketConnects >= 2
    /\ nextMessageId >= 1

\* C20: in every state of the pool at most one rpc.tryConnect is in flight or
\* one retry timer pending, never both, and at most one processNewBlocks
\* consumer is running.
C20_PoolSingleFlight ==
    /\ tryConnecting + pendingTimers <= 1
    /\ consumers <= 1

\* C21: a node disconnect of a running pool calls stratum.waitForWork and
\* starts a connect attempt; from then until the next template arrives from the
\* node nothing is broadcast through stratum.newWork: the workers stay waiting.
C21_NoWorkWhileNodeDisconnected ==
    [][/\ (lastCall'.op = "rpcClose" /\ lastCall'.wasStarted =>
             /\ workersWaiting'
             /\ tryConnecting' = tryConnecting + 1
             /\ newWorkLog' = newWorkLog)
       /\ (workersWaiting /\ newWorkLog' # newWorkLog =>
             lastCall'.op = "processNewBlock")]_vars

\* C22 as claimed: in every state, before the first template too, a job is
\* stored under every ID that passes the latest-ID check.
C22_MissingJobUnreachable ==
    \A id \in SubmitIds : IsLatest(id) => BlockRef(id) # NoRef

\* C22 amended: once the first job has been distributed, a job is stored under
\* the one ID that passes the latest-ID check, and submitWork rejects stale IDs
\* only.  Before the first template, -1 passes the latest-ID check, no job is
\* stored under it, and submitWork(-1, ...) is rejected because no stored job
\* matches.
C22_MissingJobOnlyBeforeFirstTemplate ==
    /\ (nextMiningRequestId >= 1 =>
          \A id \in SubmitIds :
             IsLatest(id) => BlockRef(id) \in 1..Len(heap))
    /\ (nextMiningRequestId = 0 => IsLatest(-1) /\ BlockRef(-1) = NoRef)
    /\ (lastCall.op = "submitWork" /\ lastCall.rejected /\ ~lastCall.stale =>
          nextMiningRequestId = 0)
    /\ (lastCall.op = "submitWork" /\ ~lastCall.rejected =>
          nextMiningRequestId >= 1 /\ ~lastCall.stale)

\* C22's case: before the first template, a submission with the ID -1 has just
\* passed the latest-ID check and been rejected for want of a stored job.
C22_Witness ==
    /\ lastCall.op = "submitWork"
    /\ lastCall.rejected
    /\ ~lastCall.stale
    /\ nextMiningRequestId = 0
    /\ miningRequestBlocks = <<>>

\* The lines of the chunk just handled that were dispatched as the response to
\* a subscribe request, by their position.
AdoptedLines ==
    {k \in 1..Len(lastCall.handled) :
        LET line == lastCall.chunk[lastCall.handled[k]] IN
        IsResponse(line) /\ <<line.id, "mining.subscribe">> \in requestsSent}

\* C23: a successful connect writes exactly one request to the socket, a
\* mining.subscribe with the session's graffiti of that moment.  That graffiti
\* is the constructor's until a subscribe response is dispatched, and then the
\* result of the response dispatched last, which setGraffiti hands to the miner;
\* nothing else changes it, also across disconnects and reconnects.
C23_SubscribeCarriesCurrentGraffiti ==
    [][/\ (lastCall'.op = "clientConnectDone" /\ lastCall'.connected
             /\ lastCall'.wasStarted =>
                /\ cConnected'
                /\ Len(socketWrites') = Len(socketWrites) + 1
                /\ SubSeq(socketWrites', 1, Len(socketWrites)) = socketWrites
                /\ Last(socketWrites').method = "mining.subscribe"
                /\ Last(socketWrites').params = ToHex(cGraffiti)
                /\ Last(socketWrites').id = nextMessageId
                /\ <<nextMessageId, "mining.subscribe">> \in requestsSent')
       /\ (lastCall'.op = "onData" =>
             LET adopted == AdoptedLines' IN
             /\ Cardinality({j \in 1..Len(minerCalls') :
                                minerCalls'[j] = "setGraffiti"})
                   = Cardinality(adopted)
             /\ IF adopted = {} THEN cGraffiti' = cGraffiti
                ELSE LET last == CHOOSE k \in adopted : \A j \in adopted : j <= k
                     IN  ToHex(cGraffiti')
                            = lastCall'.chunk[lastCall'.handled[last]].result)
       /\ (lastCall'.op # "onData" => cGraffiti' = cGraffiti)]_vars

\* C23's case: the session has just reconnected and subscribed with the
\* graffiti it adopted from a subscribe response on the previous connection.
C23_Witness ==
    /\ lastCall.op = "clientConnectDone"
    /\ lastCall.connected
    /\ Len(socketWrites) >= 2
    /\ socketWrites[1].method = "mining.subscribe"
    /\ Last(socketWrites).method = "mining.subscribe"
    /\ Last(socketWrites).params = ToHex(cGraffiti)
    /\ Last(socketWrites).params # socketWrites[1].params
    /\ cGraffiti \in ResultGraffitis

\* C24: no assertion of recalculateTarget or distributeNewBlock fails.  While
\* the retarget interval is armed, and whenever a job has been distributed,
\* currentHeadTimestamp and currentHeadDifficulty are set and a job is stored
\* under nextMiningRequestId - 1; the interval is armed only by a template
\* arrival, in the step that sets the head state and distributes the job.
C24_AssertionsHold ==
    [][/\ ~assertFailed'
       /\ (recalculateTargetInterval' = "armed" \/ nextMiningRequestId' >= 1 =>
             /\ currentHeadTimestamp' # NullValue
             /\ currentHeadDifficulty' # NullValue
             /\ nextMiningRequestId' >= 1
             /\ BlockRefIn(miningRequestBlocks', nextMiningRequestId' - 1)
                   \in 1..Len(heap'))
       /\ (recalculateTargetInterval # "armed"
             /\ recalculateTargetInterval' = "armed" =>
                /\ lastCall'.op = "processNewBlock"
                /\ newWorkLog' # newWorkLog)
       /\ (lastCall'.op = "recalculateTarget" =>
             /\ recalculateTargetInterval = "armed"
             /\ currentHeadTimestamp # NullValue
             /\ currentHeadDifficulty # NullValue
             /\ BlockRef(nextMiningRequestId - 1) # NoRef)]_vars

\* C24's case: a retarget tick has just run and distributed the job of the
\* first template.
C24_Witness ==
    /\ lastCall.op = "recalculateTarget"
    /\ ~assertFailed
    /\ nextMiningRequestId = 2
    /\ Len(heap) = 1
    /\ currentHeadTimestamp # NullValue
    /\ currentHeadDifficulty # NullValue

====
